---- MODULE Spec2Model ----
(***************************************************************************)
(* Model of packages/amplience/src/lib/common.ts: the mapping of a GraphQL *)
(* schema annotated with directives to Amplience content type schemas.     *)
(*                                                                         *)
(* The module is a set of pure functions.  Each function is an operator,   *)
(* each exported entry point is an action that applies the operator to an  *)
(* input drawn from a bounded family and records outcome and result.       *)
(*                                                                         *)
(* Representation of JavaScript values:                                    *)
(*   string            TLA+ string; its characters are given by CharsOf    *)
(*   undefined         Undefined  (the empty tuple)                        *)
(*   optional value v  Defined(v) (the one-element tuple)                  *)
(*   array             tuple                                               *)
(*   object            record; an object used as a map is a function whose *)
(*                     domain is a set of strings                          *)
(*   thrown Error      a record with the single field "error"              *)
(*   {}                the empty function, which TLA+ cannot tell from the *)
(*                     empty tuple; no optional value of the module is {}  *)
(***************************************************************************)
EXTENDS Integers, Sequences, FiniteSets, TLC

\* schema       : the input schema document
\* fieldDef     : the input field handed to the property type resolver
\* call         : the function applied and its further arguments
\* outcome      : "none", "returned" or "threw"
\* result       : the value returned or thrown
VARIABLES schema, fieldDef, call, outcome, result

vars == <<schema, fieldDef, call, outcome, result>>

-----------------------------------------------------------------------------
(* Bounds of the model.                                                    *)

\* Largest number of fields of the type handed to the trait builders.
MaxTraitFields == 6

\* Largest number of fields of the varied object type of a schema.
MaxFields == 2

\* Largest number of directives on the field handed to the property resolver.
MaxDirectives == 2

\* Depth of nested calls the JavaScript engine allows before it throws
\* RangeError: Maximum call stack size exceeded.
MaxCallStack == 8

-----------------------------------------------------------------------------
(* JavaScript values.                                                      *)

Undefined == <<>>

Defined(v) == <<v>>

IsDefined(m) == m # Undefined

\* a?.b on an optional object
Get(m, f) == IF IsDefined(m) THEN Defined(m[1][f]) ELSE Undefined

Thrown(msg) == [error |-> msg]

\* How a function whose result may be undefined ends: by return or by throw.
Return(v) == [threw |-> FALSE, value |-> v]
Throw(e) == [threw |-> TRUE, value |-> e]

IsThrown(v) == "error" \in DOMAIN v

RangeError == Thrown("RangeError: Maximum call stack size exceeded")

\* Template literal `${o}` of a plain object: Object.prototype.toString.
ObjectToString(o) == "[object Object]"

RECURSIVE Join(_, _)
\* Array.prototype.join
Join(strs, delimiter) ==
  IF Len(strs) = 0 THEN ""
  ELSE IF Len(strs) = 1 THEN strs[1]
  ELSE strs[1] \o delimiter \o Join(Tail(strs), delimiter)

\* Array.prototype.filter
Filter(seq, Keep(_)) ==
  LET kept[i \in 0..Len(seq)] ==
        IF i = 0 THEN <<>>
        ELSE IF Keep(seq[i]) THEN Append(kept[i - 1], seq[i]) ELSE kept[i - 1]
  IN  kept[Len(seq)]

\* Array.prototype.map
Map(seq, F(_)) ==
  LET mapped[i \in 0..Len(seq)] ==
        IF i = 0 THEN <<>> ELSE Append(mapped[i - 1], F(seq[i]))
  IN  mapped[Len(seq)]

\* The characters of the strings that names are made of.
NameChars ==
  [ a |-> <<"a">>, b |-> <<"b">>, c |-> <<"c">>, d |-> <<"d">>,
    e |-> <<"e">>, f |-> <<"f">>, g |-> <<"g">>, h |-> <<"h">>,
    title |-> <<"t","i","t","l","e">>,
    heroImage |-> <<"h","e","r","o","I","m","a","g","e">>,
    relatedPosts |-> <<"r","e","l","a","t","e","d","P","o","s","t","s">>,
    parent |-> <<"p","a","r","e","n","t">>,
    Article |-> <<"A","r","t","i","c","l","e">>,
    BlogPost |-> <<"B","l","o","g","P","o","s","t">>,
    Category |-> <<"C","a","t","e","g","o","r","y">>,
    HTMLBlock |-> <<"H","T","M","L","B","l","o","c","k">>,
    Slot |-> <<"S","l","o","t">>,
    Color |-> <<"C","o","l","o","r">>,
    Missing |-> <<"M","i","s","s","i","n","g">>,
    String |-> <<"S","t","r","i","n","g">>,
    Boolean |-> <<"B","o","o","l","e","a","n">>,
    Int |-> <<"I","n","t">>,
    Float |-> <<"F","l","o","a","t">>,
    DateTime |-> <<"D","a","t","e","T","i","m","e">>,
    AmplienceImage |-> <<"A","m","p","l","i","e","n","c","e","I","m","a","g","e">>,
    AmplienceVideo |-> <<"A","m","p","l","i","e","n","c","e","V","i","d","e","o">> ]

\* The characters of the textual numeric literals of the input documents.
LiteralChars ==
  ("0" :> <<"0">>) @@ ("2" :> <<"2">>) @@ ("5" :> <<"5">>) @@
  ("10" :> <<"1","0">>) @@ ("64" :> <<"6","4">>)

CharsOf(s) == IF s \in DOMAIN LiteralChars THEN LiteralChars[s] ELSE NameChars[s]

LowerLetters ==
  <<"a","b","c","d","e","f","g","h","i","j","k","l","m",
    "n","o","p","q","r","s","t","u","v","w","x","y","z">>

UpperLetters ==
  <<"A","B","C","D","E","F","G","H","I","J","K","L","M",
    "N","O","P","Q","R","S","T","U","V","W","X","Y","Z">>

Digits == <<"0","1","2","3","4","5","6","7","8","9">>

IndexIn(ch, alphabet) ==
  IF \E i \in 1..Len(alphabet) : alphabet[i] = ch
  THEN CHOOSE i \in 1..Len(alphabet) : alphabet[i] = ch
  ELSE 0

IsLower(ch) == IndexIn(ch, LowerLetters) > 0
IsUpper(ch) == IndexIn(ch, UpperLetters) > 0
IsDigit(ch) == IndexIn(ch, Digits) > 0

toLowerCase(ch) == IF IsUpper(ch) THEN LowerLetters[IndexIn(ch, UpperLetters)] ELSE ch
toUpperCase(ch) == IF IsLower(ch) THEN UpperLetters[IndexIn(ch, LowerLetters)] ELSE ch

\* change-case noCase: where the two split expressions
\* /([a-z0-9])([A-Z])/g and /([A-Z])([A-Z][a-z])/g put a word boundary
\* after character i of cs.
SplitAfter(cs, i) ==
  /\ i < Len(cs)
  /\ \/ (IsLower(cs[i]) \/ IsDigit(cs[i])) /\ IsUpper(cs[i + 1])
     \/ /\ IsUpper(cs[i]) /\ IsUpper(cs[i + 1])
        /\ i + 2 <= Len(cs) /\ IsLower(cs[i + 2])

\* change-case noCase: a character the strip expression /[^A-Z0-9]+/gi removes.
IsStripped(ch) == ~(IsLower(ch) \/ IsUpper(ch) \/ IsDigit(ch))

RECURSIVE Words(_, _, _)
\* change-case noCase: the words of cs from position i on, cur being the
\* characters of the word under construction.
Words(cs, i, cur) ==
  IF i > Len(cs) THEN (IF cur = <<>> THEN <<>> ELSE <<cur>>)
  ELSE IF IsStripped(cs[i])
       THEN (IF cur = <<>> THEN <<>> ELSE <<cur>>) \o Words(cs, i + 1, <<>>)
  ELSE IF SplitAfter(cs, i)
       THEN <<Append(cur, cs[i])>> \o Words(cs, i + 1, <<>>)
  ELSE Words(cs, i + 1, Append(cur, cs[i]))

\* change-case paramCase: lower-cased words joined by "-".
paramCase(s) ==
  Join(Map(Words(CharsOf(s), 1, <<>>),
           LAMBDA w : Join(Map(w, toLowerCase), "")), "-")

\* change-case capitalCase: words with a capital first letter joined by " ".
capitalCase(s) ==
  Join(Map(Words(CharsOf(s), 1, <<>>),
           LAMBDA w : Join([i \in 1..Len(w) |->
                              IF i = 1 THEN toUpperCase(w[i]) ELSE toLowerCase(w[i])], "")),
       " ")

RECURSIVE DigitsToNumber(_)
DigitsToNumber(cs) ==
  IF Len(cs) = 0 THEN 0
  ELSE 10 * DigitsToNumber(SubSeq(cs, 1, Len(cs) - 1)) + (IndexIn(cs[Len(cs)], Digits) - 1)

\* lib/util maybeToNumber: the number a textual literal denotes; absent stays absent.
maybeToNumber(m) == IF IsDefined(m) THEN Defined(DigitsToNumber(CharsOf(m[1]))) ELSE Undefined

-----------------------------------------------------------------------------
(* The GraphQL AST (package graphql).                                      *)

NameNode(s) == [kind |-> "Name", value |-> s]

NamedType(s) == [kind |-> "NamedType", name |-> NameNode(s)]
NonNullType(t) == [kind |-> "NonNullType", type |-> t]
ListType(t) == [kind |-> "ListType", type |-> t]

StringValue(s) == [kind |-> "StringValue", value |-> s]
IntValue(s) == [kind |-> "IntValue", value |-> s]
ListValue(vs) == [kind |-> "ListValue", values |-> vs]

Argument(n, v) == [kind |-> "Argument", name |-> NameNode(n), value |-> v]
Directive(n, args) == [kind |-> "Directive", name |-> NameNode(n), arguments |-> args]

\* A field without a description string.
FieldDefinition(n, t, ds) ==
  [kind |-> "FieldDefinition", name |-> NameNode(n), description |-> Undefined,
   type |-> t, directives |-> ds]

ObjectTypeDefinition(n, fs) ==
  [kind |-> "ObjectTypeDefinition", name |-> NameNode(n), fields |-> fs]
UnionTypeDefinition(n, ts) ==
  [kind |-> "UnionTypeDefinition", name |-> NameNode(n), types |-> ts]
EnumTypeDefinition(n, vs) ==
  [kind |-> "EnumTypeDefinition", name |-> NameNode(n),
   values |-> [i \in 1..Len(vs) |-> [kind |-> "EnumValueDefinition", name |-> NameNode(vs[i])]]]
ScalarTypeDefinition(n) == [kind |-> "ScalarTypeDefinition", name |-> NameNode(n)]

\* GraphQLSchema.getType: the named type, or undefined.
getType(sch, name) == IF name \in DOMAIN sch THEN Defined(sch[name]) ELSE Undefined

isUnionType(node) == node.kind = "UnionTypeDefinition"
isEnumType(node) == node.kind = "EnumTypeDefinition"
isObjectType(node) == node.kind = "ObjectTypeDefinition"

RECURSIVE typeName(_)
\* lib/graphql-ast typeName: the name of the named type inside the wrappers.
typeName(type) ==
  IF type.kind = "NamedType" THEN type.name.value ELSE typeName(type.type)

-----------------------------------------------------------------------------
(* lib/util: the directive reader.                                         *)

hasDirective(prop, name) ==
  \E i \in 1..Len(prop.directives) : prop.directives[i].name.value = name

findDirective(prop, name) ==
  IF hasDirective(prop, name)
  THEN LET i == CHOOSE i \in 1..Len(prop.directives) :
                  /\ prop.directives[i].name.value = name
                  /\ \A j \in 1..(i - 1) : prop.directives[j].name.value # name
       IN  Defined(prop.directives[i])
  ELSE Undefined

\* Array.prototype.find on the arguments of a directive
findArgument(directive, argName) ==
  LET args == directive.arguments
  IN  IF \E i \in 1..Len(args) : args[i].name.value = argName
      THEN LET i == CHOOSE i \in 1..Len(args) :
                      /\ args[i].name.value = argName
                      /\ \A j \in 1..(i - 1) : args[j].name.value # argName
           IN  Defined(args[i])
      ELSE Undefined

findDirectiveValue(prop, name, argName) ==
  LET d == findDirective(prop, name)
  IN  IF IsDefined(d) THEN Get(findArgument(d[1], argName), "value") ELSE Undefined

\* lib/util ifNotEmpty
ifNotEmpty(items, Fn(_)) == IF Len(items) = 0 THEN Undefined ELSE Defined(Fn(items))

\* lib/util switchArray: a list type (nullable or not) goes to IfArray with its
\* element type, every other type to Other.
switchArray(type, IfArray(_), Other(_)) ==
  LET inner == IF type.kind = "NonNullType" THEN type.type ELSE type
  IN  IF inner.kind = "ListType" THEN IfArray(inner.type) ELSE Other(type)

RECURSIVE Choose(_, _)
\* The sub-arrays of arr with k elements, in the order of arr.
Choose(arr, k) ==
  IF k = 0 THEN << <<>> >>
  ELSE IF Len(arr) < k THEN <<>>
  ELSE Map(Choose(Tail(arr), k - 1), LAMBDA c : <<Head(arr)>> \o c) \o Choose(Tail(arr), k)

\* lib/util combinations: every non-empty sub-array of arr, by increasing size,
\* then in the order of arr.
combinations(arr) ==
  LET upTo[k \in 0..Len(arr)] == IF k = 0 THEN <<>> ELSE upTo[k - 1] \o Choose(arr, k)
  IN  upTo[Len(arr)]

-----------------------------------------------------------------------------
(* lib/common.ts                                                           *)

AMPLIENCE_TYPE ==
  [ LOCALIZED |->
      [ AmplienceImage |->
          "http://bigcontent.io/cms/schema/v1/localization#/definitions/localized-image",
        AmplienceVideo |->
          "http://bigcontent.io/cms/schema/v1/localization#/definitions/localized-video",
        String |->
          "http://bigcontent.io/cms/schema/v1/localization#/definitions/localized-string" ],
    CORE |->
      [ LocalizedValue |->
          "http://bigcontent.io/cms/schema/v1/core#/definitions/localized-value",
        Content |-> "http://bigcontent.io/cms/schema/v1/core#/definitions/content",
        AmplienceImage |->
          "http://bigcontent.io/cms/schema/v1/core#/definitions/image-link",
        AmplienceVideo |->
          "http://bigcontent.io/cms/schema/v1/core#/definitions/video-link",
        ContentReference |->
          "http://bigcontent.io/cms/schema/v1/core#/definitions/content-reference",
        ContentLink |->
          "http://bigcontent.io/cms/schema/v1/core#/definitions/content-link",
        HierarchyNode |->
          "http://bigcontent.io/cms/schema/v2/hierarchy#/definitions/hierarchy-node" ] ]

\* The object literal {}.
EmptyObject == [k \in {} |-> k]

refType(ref, other) == [allOf |-> <<("$ref" :> ref)>> \o other]

localized(value) ==
  [ allOf |-> refType(AMPLIENCE_TYPE.CORE.LocalizedValue, <<>>).allOf,
    properties |-> [values |-> [items |-> [properties |-> [value |-> value]]]] ]

typeUri(type, schemaHost) == schemaHost \o "/" \o paramCase(type.name.value)

definitionUri(type, schemaHost) ==
  schemaHost \o "/" \o paramCase(type.name.value) \o "#/definitions/"
    \o paramCase(type.name.value)

\* enumProperties without its union case: the type itself is the only target.
enumProperties_SelfOnly(typeOrUnion, schemaHost) ==
  [properties |-> [contentType |-> [enum |-> <<typeUri(typeOrUnion, schemaHost)>>]]]

enumProperties(typeOrUnion, schemaHost) ==
  [ properties |->
      [ contentType |->
          [ enum |-> Map(IF typeOrUnion.kind = "UnionTypeDefinition"
                         THEN typeOrUnion.types
                         ELSE <<typeOrUnion>>,
                         LAMBDA t : typeUri(t, schemaHost)) ] ] ]

contentLink(type, schemaHost) ==
  refType(AMPLIENCE_TYPE.CORE.ContentLink, <<enumProperties(type, schemaHost)>>)

\* checkLocalized without the count of the directives of the field.
checkLocalized_AnyCount(prop, type, res) ==
  IF hasDirective(prop, "localized")
  THEN IF typeName(type) = "String"
       THEN refType(AMPLIENCE_TYPE.LOCALIZED.String, <<>>)
       ELSE localized(res)
  ELSE res

checkLocalized(prop, type, res) ==
  IF hasDirective(prop, "localized")
  THEN IF Len(prop.directives) = 1 /\ typeName(type) = "String"
       THEN refType(AMPLIENCE_TYPE.LOCALIZED.String, <<>>)
       ELSE localized(res)
  ELSE res

arrayConstValues(prop) ==
  LET items == findDirectiveValue(prop, "const", "items")
  IN  IF IsDefined(items)
      THEN Defined(Map(items[1].values, LAMBDA v : v.value))
      ELSE Undefined

\* The String case of the switch of ampliencePropertyType.
stringPropertyType(prop, type) ==
  LET constTag == findDirective(prop, "const")
  IN  IF IsDefined(constTag)
      THEN LET constValue == Get(Get(findArgument(constTag[1], "item"), "value"), "value")
           IN  [type |-> "string", const |-> constValue]
      ELSE checkLocalized(prop, type,
             [ type |-> "string",
               format |-> Get(findDirectiveValue(prop, "text", "format"), "value"),
               minLength |->
                 maybeToNumber(Get(findDirectiveValue(prop, "text", "minLength"), "value")),
               maxLength |->
                 maybeToNumber(Get(findDirectiveValue(prop, "text", "maxLength"), "value")),
               examples |->
                 LET items == findDirectiveValue(prop, "example", "items")
                 IN  IF IsDefined(items)
                     THEN Defined(Map(items[1].values, LAMBDA v : v.value))
                     ELSE Undefined ])

\* The switch on the scalar type name of ampliencePropertyType.
scalarPropertyType(prop, type) ==
  LET name == typeName(type)
  IN  CASE name = "String" -> stringPropertyType(prop, type)
        [] name = "Boolean" -> checkLocalized(prop, type, [type |-> "boolean"])
        [] name \in {"Int", "Float"} ->
             checkLocalized(prop, type,
               [ type |-> IF name = "Float" THEN "number" ELSE "integer",
                 minimum |->
                   maybeToNumber(Get(findDirectiveValue(prop, "number", "minimum"), "value")),
                 maximum |->
                   maybeToNumber(Get(findDirectiveValue(prop, "number", "maximum"), "value")) ])
        [] name \in {"AmplienceImage", "AmplienceVideo"} ->
             IF hasDirective(prop, "localized")
             THEN refType(AMPLIENCE_TYPE.LOCALIZED[name], <<>>)
             ELSE refType(AMPLIENCE_TYPE.CORE[name], <<>>)
        [] OTHER -> EmptyObject

\* The filter of objectProperties without its second term.
ExcludingTerms_ChildrenOnly == {"children"}

\* The directives that keep a field out of the properties of its type.
ExcludingTerms == {"children", "ignoreAmplience"}

RECURSIVE objectProperties(_, _, _, _)
RECURSIVE ampliencePropertyType(_, _, _, _, _)
RECURSIVE inlineObject(_, _, _, _)

\* depth is the number of frames of these three functions on the call stack;
\* a call beyond MaxCallStack throws RangeError, which every caller lets through.
objectProperties(type, sch, schemaHost, depth) ==
  IF depth > MaxCallStack THEN RangeError
  ELSE
    LET props == Filter(type.fields,
                   LAMBDA prop : \A term \in ExcludingTerms : ~hasDirective(prop, term))
        resolved == Map(props, LAMBDA prop :
          switchArray(prop.type,
            LAMBDA subType :
              LET items == ampliencePropertyType(prop, subType, sch, schemaHost, depth + 1)
              IN  IF IsThrown(items) THEN items
                  ELSE [ type |-> "array",
                         minItems |->
                           maybeToNumber(Get(findDirectiveValue(prop, "list", "minItems"), "value")),
                         maxItems |->
                           maybeToNumber(Get(findDirectiveValue(prop, "list", "maxItems"), "value")),
                         items |-> items,
                         const |-> arrayConstValues(prop) ],
            LAMBDA t : ampliencePropertyType(prop, t, sch, schemaHost, depth + 1)))
    IN  IF \E i \in 1..Len(props) : IsThrown(resolved[i])
        THEN resolved[CHOOSE i \in 1..Len(props) :
                        /\ IsThrown(resolved[i])
                        /\ \A j \in 1..(i - 1) : ~IsThrown(resolved[j])]
        ELSE [ key \in {props[i].name.value : i \in 1..Len(props)} |->
                 LET i == CHOOSE i \in 1..Len(props) :
                            /\ props[i].name.value = key
                            /\ \A j \in (i + 1)..Len(props) : props[j].name.value # key
                 IN  resolved[i] @@
                     [ title |-> capitalCase(props[i].name.value),
                       description |-> Get(props[i].description, "value") ] ]

ampliencePropertyType(prop, type, sch, schemaHost, depth) ==
  IF depth > MaxCallStack THEN RangeError
  ELSE
    LET node == getType(sch, typeName(type))
    IN  IF IsDefined(node) /\ isUnionType(node[1])
          THEN contentLink(node[1], schemaHost)
        ELSE IF IsDefined(node) /\ isEnumType(node[1])
          THEN [type |-> "string", enum |-> Map(node[1].values, LAMBDA v : v.name.value)]
        ELSE IF IsDefined(node) /\ isObjectType(node[1])
          THEN IF hasDirective(prop, "link")
               THEN contentLink(node[1], schemaHost)
               ELSE inlineObject(node[1], sch, schemaHost, depth + 1)
        ELSE scalarPropertyType(prop, type)

inlineObject(type, sch, schemaHost, depth) ==
  IF depth > MaxCallStack THEN RangeError
  ELSE
    LET properties == objectProperties(type, sch, schemaHost, depth + 1)
    IN  IF IsThrown(properties) THEN properties
        ELSE [ type |-> "object",
               properties |-> properties,
               propertyOrder |-> Map(type.fields, LAMBDA n : n.name.value),
               required |-> Map(Filter(type.fields,
                                       LAMBDA field : field.type.kind = "NonNullType"),
                                LAMBDA field : field.name.value) ]

contentTypeSchema(type, validationLevel, config) ==
  [ body |-> "./schemas/" \o paramCase(type.name.value) \o "-schema.json",
    schemaId |-> typeUri(type, config.schemaHost),
    validationLevel |-> validationLevel ]

DefaultIcon == "https://bigcontent.io/cms/icons/ca-types-primitives.png"

contentType(type, icon, config) ==
  [ contentTypeUri |-> typeUri(type, config.schemaHost),
    status |-> "ACTIVE",
    settings |->
      [ label |-> capitalCase(type.name.value),
        icons |-> <<[size |-> 256, url |-> IF IsDefined(icon) THEN icon[1] ELSE DefaultIcon]>>,
        visualizations |-> config.visualizations,
        cards |-> <<>> ] ]

sortableTrait(type) ==
  ifNotEmpty(Filter(type.fields, LAMBDA m : hasDirective(m, "sortable")),
    LAMBDA items :
      [ sortBy |-> << [ key |-> "default",
                        paths |-> Map(items, LAMBDA n : "/" \o ObjectToString(n.name)) ] >> ])

hierarchyTrait(type, schemaHost) ==
  [ childContentTypes |->
      <<typeUri(type, schemaHost)>> \o
      Map(Filter(type.fields, LAMBDA m : hasDirective(m, "children")),
          LAMBDA n : schemaHost \o "/" \o paramCase(n.name.value)) ]

\* The largest number of filter paths Amplience supports.
MaxFilterable == 5

ConfigurationError == Thrown("max @filterable tags can be five")

\* filterableTrait with the limit itself refused.
filterableTrait_LimitRefused(type) ==
  LET filterableProps == Filter(type.fields, LAMBDA m : hasDirective(m, "filterable"))
  IN  IF Len(filterableProps) = 0 THEN Return(Undefined)
      ELSE IF Len(filterableProps) >= MaxFilterable THEN Throw(ConfigurationError)
      ELSE LET filterCombinations ==
                 combinations(Map(filterableProps, LAMBDA s : "/" \o ObjectToString(s.name)))
           IN  Return(Defined(
                 [filterBy |-> Map(filterCombinations, LAMBDA paths : [paths |-> paths])]))

filterableTrait(type) ==
  LET filterableProps == Filter(type.fields, LAMBDA m : hasDirective(m, "filterable"))
  IN  IF Len(filterableProps) = 0 THEN Return(Undefined)
      ELSE IF Len(filterableProps) > MaxFilterable THEN Throw(ConfigurationError)
      ELSE LET filterCombinations ==
                 combinations(Map(filterableProps, LAMBDA s : "/" \o ObjectToString(s.name)))
           IN  Return(Defined(
                 [filterBy |-> Map(filterCombinations, LAMBDA paths : [paths |-> paths])]))

-----------------------------------------------------------------------------
(* The inputs: schemas, fields and configurations of bounded size.         *)

SchemaHost == "https://h"

Config == [schemaHost |-> SchemaHost, visualizations |-> <<>>]

\* SeqsUpTo(S, n): the sequences over S of length at most n.
SeqsUpTo(S, n) == UNION {[1..k -> S] : k \in 0..n}

\* The names of the fields of a generated type, by position.
FieldNames == <<"a", "b", "c", "relatedPosts", "e", "f", "g", "h">>

Marker(n) == Directive(n, <<>>)

\* The scalar, enum, union and object types every schema declares.
BaseSchema ==
  [ String |-> ScalarTypeDefinition("String"),
    Boolean |-> ScalarTypeDefinition("Boolean"),
    Int |-> ScalarTypeDefinition("Int"),
    Float |-> ScalarTypeDefinition("Float"),
    DateTime |-> ScalarTypeDefinition("DateTime"),
    AmplienceImage |-> ScalarTypeDefinition("AmplienceImage"),
    AmplienceVideo |-> ScalarTypeDefinition("AmplienceVideo"),
    Color |-> EnumTypeDefinition("Color", <<"RED", "GREEN">>),
    HTMLBlock |-> ObjectTypeDefinition("HTMLBlock",
                    <<FieldDefinition("title", NonNullType(NamedType("String")), <<>>)>>),
    Category |-> ObjectTypeDefinition("Category",
                    <<FieldDefinition("title", NamedType("String"), <<>>),
                      FieldDefinition("parent", NamedType("Category"), <<>>)>>) ]

\* --- the types handed to the trait builders and the content type builders

TraitDirectives ==
  { <<>>, <<Marker("sortable")>>, <<Marker("filterable")>>, <<Marker("children")>>,
    <<Marker("filterable"), Marker("sortable")>> }

TraitTypes ==
  { ObjectTypeDefinition("BlogPost",
      [i \in 1..Len(ds) |-> FieldDefinition(FieldNames[i], NamedType("String"), ds[i])])
    : ds \in SeqsUpTo(TraitDirectives, MaxTraitFields) }

TraitSchemas == { BaseSchema @@ [BlogPost |-> t] : t \in TraitTypes }

\* --- the schemas whose object types are mapped as a whole

BlogPostVariants ==
  { <<FieldDefinition("title", NonNullType(NamedType("String")), <<>>),
      FieldDefinition("relatedPosts", ListType(NamedType("Article")), <<Marker("children")>>),
      FieldDefinition("heroImage", NonNullType(NamedType("HTMLBlock")), <<>>)>>,
    <<FieldDefinition("title", NamedType("String"), <<>>),
      FieldDefinition("a", NamedType("Article"), <<>>)>>,
    <<FieldDefinition("title", NonNullType(NamedType("String")), <<Marker("ignoreAmplience")>>),
      FieldDefinition("b", NamedType("String"), <<Marker("ignore")>>)>> }

\* The type and the directives a field of the varied type Article may have.
ArticleFieldShapes ==
  { <<NonNullType(NamedType("String")), <<>>>>,
    <<NonNullType(NamedType("String")), <<Marker("children")>>>>,
    <<NamedType("String"), <<Marker("ignoreAmplience")>>>>,
    <<NamedType("String"), <<Marker("ignore")>>>>,
    <<NamedType("BlogPost"), <<>>>>,
    <<NonNullType(NamedType("BlogPost")), <<Marker("link")>>>>,
    <<NonNullType(ListType(NamedType("BlogPost"))), <<>>>>,
    <<ListType(NamedType("BlogPost")), <<Marker("children")>>>>,
    <<NamedType("Article"), <<>>>>,
    <<NamedType("Article"), <<Marker("link")>>>>,
    <<NamedType("Missing"), <<>>>> }

ArticleFields ==
  { [i \in 1..Len(fs) |-> FieldDefinition(FieldNames[i], fs[i][1], fs[i][2])]
    : fs \in SeqsUpTo(ArticleFieldShapes, MaxFields) }

UnionVariants ==
  { <<NamedType("Article"), NamedType("BlogPost")>>,
    <<NamedType("BlogPost"), NamedType("HTMLBlock"), NamedType("Article")>> }

SchemaWith(articleFields, blogPostFields, slotTypes) ==
  BaseSchema @@
  [ Article |-> ObjectTypeDefinition("Article", articleFields),
    BlogPost |-> ObjectTypeDefinition("BlogPost", blogPostFields),
    Slot |-> UnionTypeDefinition("Slot", slotTypes) ]

TypeSchemas ==
  { SchemaWith(af, bf, <<NamedType("Article"), NamedType("BlogPost")>>)
    : af \in ArticleFields, bf \in BlogPostVariants }

ObjectTypeNames(sch) == { n \in DOMAIN sch : isObjectType(sch[n]) }

\* --- the single fields handed to the property type resolver

FieldSchemas ==
  { SchemaWith(<<FieldDefinition("title", NonNullType(NamedType("String")), <<>>),
                 FieldDefinition("relatedPosts", ListType(NamedType("Article")),
                                 <<Marker("children")>>)>>,
               <<FieldDefinition("title", NamedType("String"), <<>>)>>,
               st)
    : st \in UnionVariants }

PropDirectives ==
  { Marker("localized"), Marker("link"), Marker("sortable"),
    Directive("const", <<Argument("item", StringValue("x"))>>),
    Directive("const", <<Argument("items", ListValue(<<StringValue("x"), StringValue("y")>>))>>),
    Directive("const", <<>>),
    Directive("text", <<Argument("minLength", IntValue("2"))>>),
    Directive("text", <<Argument("format", StringValue("markdown")),
                        Argument("maxLength", IntValue("64"))>>),
    Directive("example", <<Argument("items", ListValue(<<StringValue("x")>>))>>),
    Directive("number", <<Argument("minimum", IntValue("0")),
                          Argument("maximum", IntValue("10"))>>) }

PropTypes ==
  { NamedType("String"), NonNullType(NamedType("String")), NamedType("Boolean"),
    NamedType("Int"), NamedType("Float"), NamedType("AmplienceImage"),
    NamedType("AmplienceVideo"), NamedType("DateTime"), NamedType("Missing"),
    NamedType("Color"), NamedType("Slot"), NamedType("Article"),
    NonNullType(NamedType("BlogPost")), NamedType("Category") }

Props ==
  { FieldDefinition("a", t, ds) : t \in PropTypes, ds \in SeqsUpTo(PropDirectives, MaxDirectives) }

\* Descriptors handed to checkLocalized by its callers.
SampleDescriptors ==
  { [type |-> "boolean"],
    [type |-> "string", format |-> Undefined, minLength |-> Defined(2),
     maxLength |-> Undefined, examples |-> Undefined] }

-----------------------------------------------------------------------------
(* The calls.  A call leaves the schema alone and records what it was      *)
(* given, whether it returned or threw, and what it returned or threw.     *)

NoCall == [op |-> "none"]

Record(c, value, threw) ==
  /\ call = NoCall
  /\ call' = c
  /\ outcome' = IF threw THEN "threw" ELSE "returned"
  /\ result' = value
  /\ UNCHANGED <<schema, fieldDef>>

CallContentTypeSchema ==
  \E level \in {"CONTENT_TYPE", "PARTIAL", "SLOT"} :
    Record([op |-> "contentTypeSchema", type |-> "BlogPost", validationLevel |-> level],
           contentTypeSchema(schema.BlogPost, level, Config), FALSE)

CallContentType ==
  \E icon \in {Undefined, Defined("https://h/icon.png")} :
    Record([op |-> "contentType", type |-> "BlogPost", icon |-> icon],
           contentType(schema.BlogPost, icon, Config), FALSE)

CallDefinitionUri ==
  Record([op |-> "definitionUri", type |-> "BlogPost"],
         definitionUri(schema.BlogPost, SchemaHost), FALSE)

CallSortableTrait ==
  Record([op |-> "sortableTrait", type |-> "BlogPost"], sortableTrait(schema.BlogPost), FALSE)

CallHierarchyTrait ==
  Record([op |-> "hierarchyTrait", type |-> "BlogPost"],
         hierarchyTrait(schema.BlogPost, SchemaHost), FALSE)

CallFilterableTrait ==
  LET r == filterableTrait(schema.BlogPost)
  IN  Record([op |-> "filterableTrait", type |-> "BlogPost"], r.value, r.threw)

CallObjectProperties ==
  \E name \in ObjectTypeNames(schema) :
    LET r == objectProperties(schema[name], schema, SchemaHost, 1)
    IN  Record([op |-> "objectProperties", type |-> name], r, IsThrown(r))

CallAmpliencePropertyType ==
  LET r == ampliencePropertyType(fieldDef, fieldDef.type, schema, SchemaHost, 1)
  IN  Record([op |-> "ampliencePropertyType", type |-> fieldDef.type], r, IsThrown(r))

CallCheckLocalized ==
  \E res \in SampleDescriptors :
    Record([op |-> "checkLocalized", type |-> fieldDef.type, result |-> res],
           checkLocalized(fieldDef, fieldDef.type, res), FALSE)

InitNoCall == call = NoCall /\ outcome = "none" /\ result = Undefined

\* The field of the inputs that are about a whole type.
NoProp == FieldDefinition("a", NamedType("String"), <<>>)

\* The trait builders on every generated type.
TraitInit == schema \in TraitSchemas /\ fieldDef = NoProp /\ InitNoCall

TraitNext == CallSortableTrait \/ CallHierarchyTrait \/ CallFilterableTrait

TraitSpec == TraitInit /\ [][TraitNext]_vars

\* The property type resolver on every generated field, and the content type builders.
FieldInit == schema \in FieldSchemas /\ fieldDef \in Props /\ InitNoCall

FieldNext ==
  \/ CallAmpliencePropertyType
  \/ CallCheckLocalized
  \/ CallContentTypeSchema
  \/ CallContentType
  \/ CallDefinitionUri

FieldSpec == FieldInit /\ [][FieldNext]_vars

\* The object properties builder on every object type of every generated schema.
TypeInit == schema \in TypeSchemas /\ fieldDef = NoProp /\ InitNoCall

TypeNext == CallObjectProperties

TypeSpec == TypeInit /\ [][TypeNext]_vars

\* Every function on every input.
Init == TraitInit \/ FieldInit \/ TypeInit

Next == TraitNext \/ FieldNext \/ TypeNext

Spec == Init /\ [][Next]_vars

-----------------------------------------------------------------------------
(* Properties.                                                             *)

\* The field carries a directive of that name.
Tagged(f, name) == \E i \in DOMAIN f.directives : f.directives[i].name.value = name

\* The fields of a type that carry a directive of that name, in declaration order.
TaggedFields(type, name) == Filter(type.fields, LAMBDA f : Tagged(f, name))

\* The kebab-case form of the type names of the schemas.
KebabOf ==
  [ Article |-> "article", BlogPost |-> "blog-post", HTMLBlock |-> "html-block",
    Category |-> "category" ]

\* The kind of the schema type a type node resolves to.
ResolvedKind(type) ==
  IF typeName(type) \in DOMAIN schema THEN schema[typeName(type)].kind ELSE "none"

IsArrayDescriptor(d) == "type" \in DOMAIN d /\ d.type = "array"
IsInlineDescriptor(d) == "type" \in DOMAIN d /\ d.type = "object"

\* The descriptor of the field itself, or of its elements when it is a list.
ElementDescriptor(d) == IF IsArrayDescriptor(d) THEN d.items ELSE d

ContentLinkOf(uris) ==
  [ allOf |-> << ("$ref" :> "http://bigcontent.io/cms/schema/v1/core#/definitions/content-link"),
                 [properties |-> [contentType |-> [enum |-> uris]]] >> ]

RECURSIVE KeepsExactly(_, _, _)
\* props, the property map made for type, has as keys exactly the names of the
\* fields of type that carry none of the directives terms, and so has the
\* property map of every inline object descriptor in it.
KeepsExactly(type, props, terms) ==
  /\ DOMAIN props =
       { type.fields[i].name.value :
           i \in { j \in 1..Len(type.fields) : \A t \in terms : ~Tagged(type.fields[j], t) } }
  /\ \A i \in 1..Len(type.fields) :
       LET f == type.fields[i]
       IN  f.name.value \in DOMAIN props =>
             LET d == ElementDescriptor(props[f.name.value])
             IN  IsInlineDescriptor(d) =>
                   KeepsExactly(schema[typeName(f.type)], d.properties, terms)

\* C1 as amended: no field that carries a "children" or an "ignoreAmplience"
\* directive is a key of the property map objectProperties returns for its type,
\* nor of the properties of any inline object descriptor in it; every other field
\* of the type is a key.
C1_ExcludedFields ==
  (call.op = "objectProperties" /\ outcome = "returned") =>
    KeepsExactly(schema[call.type], result, {"children", "ignoreAmplience"})

\* C1 as stated: the same of the directives "children" and "ignore".
C1_AsStated ==
  (call.op = "objectProperties" /\ outcome = "returned") =>
    KeepsExactly(schema[call.type], result, {"children", "ignore"})

\* objectProperties of Article returned a map without the field tagged
\* "ignoreAmplience", with an inline BlogPost without its "children" field.
C1_Witness ==
  /\ call.op = "objectProperties" /\ call.type = "Article" /\ outcome = "returned"
  /\ \E i, j \in 1..Len(schema.Article.fields) :
       LET f == schema.Article.fields[i]
           g == schema.Article.fields[j]
       IN  /\ Tagged(f, "ignoreAmplience") /\ f.name.value \notin DOMAIN result
           /\ g.name.value \in DOMAIN result
           /\ IsInlineDescriptor(result[g.name.value])
           /\ Tagged(schema.BlogPost.fields[2], "children")
           /\ DOMAIN result[g.name.value].properties = {"title", "heroImage"}

\* C2: sortableTrait returns undefined when no field is tagged "sortable", and
\* otherwise one sort definition "default" whose paths are "/" and the name of
\* each tagged field, in declaration order.
C2_SortablePaths ==
  call.op = "sortableTrait" =>
    LET tagged == TaggedFields(schema[call.type], "sortable")
    IN  IF Len(tagged) = 0
        THEN result = Undefined
        ELSE result =
               Defined([sortBy |-> << [ key |-> "default",
                                        paths |-> [i \in 1..Len(tagged) |->
                                                     "/" \o tagged[i].name.value] ] >>])

\* The paths of the tagged fields whose positions are in S, in declaration order.
PathsOf(tagged, S) ==
  LET at[i \in 0..Len(tagged)] ==
        IF i = 0 THEN <<>>
        ELSE IF i \in S THEN Append(at[i - 1], "/" \o tagged[i].name.value) ELSE at[i - 1]
  IN  at[Len(tagged)]

\* C3: for one to five fields tagged "filterable", filterBy has 2^n - 1 entries,
\* one for each non-empty subset of the tagged fields, each with the paths
\* "/<fieldName>" of its subset in declaration order.
C3_FilterCombinations ==
  LET tagged == TaggedFields(schema[call.type], "filterable")
      n == Len(tagged)
  IN  (call.op = "filterableTrait" /\ n \in 1..5) =>
        /\ outcome = "returned"
        /\ Len(result[1].filterBy) = 2^n - 1
        /\ { result[1].filterBy[k].paths : k \in 1..Len(result[1].filterBy) } =
             { PathsOf(tagged, S) : S \in (SUBSET (1..n)) \ {{}} }

\* C4: filterableTrait throws the configuration error exactly when more than five
\* fields are tagged "filterable"; with none it returns undefined, with one to
\* five a filterBy structure.
C4_FilterableLimit ==
  call.op = "filterableTrait" =>
    LET n == Cardinality({ i \in 1..Len(schema[call.type].fields) :
                             Tagged(schema[call.type].fields[i], "filterable") })
    IN  /\ (outcome = "threw") <=> (n > 5)
        /\ outcome = "threw" => result = ConfigurationError
        /\ n = 0 => outcome = "returned" /\ result = Undefined
        /\ n \in 1..5 => /\ outcome = "returned"
                         /\ result # Undefined
                         /\ DOMAIN result[1] = {"filterBy"}

\* filterableTrait threw on six tagged fields.
C4_Witness ==
  /\ call.op = "filterableTrait" /\ outcome = "threw"
  /\ Len(TaggedFields(schema[call.type], "filterable")) = 6

\* C5: checkLocalized returns the descriptor as it is for a field without
\* "localized"; the localized-string reference for a String field whose only
\* directive is "localized"; and in every other case the localized-value
\* reference with the descriptor under properties.values.items.properties.value.
C5_CheckLocalized ==
  call.op = "checkLocalized" =>
    IF ~Tagged(fieldDef, "localized")
    THEN result = call.result
    ELSE IF Len(fieldDef.directives) = 1 /\ typeName(call.type) = "String"
    THEN result =
           [ allOf |-> << ("$ref" :>
               "http://bigcontent.io/cms/schema/v1/localization#/definitions/localized-string") >> ]
    ELSE result =
           [ allOf |-> << ("$ref" :>
               "http://bigcontent.io/cms/schema/v1/core#/definitions/localized-value") >>,
             properties |-> [values |-> [items |-> [properties |-> [value |-> call.result]]]] ]

\* checkLocalized wrapped the descriptor of a String field with "text" and
\* "localized", minLength intact.
C5_Witness ==
  /\ call.op = "checkLocalized" /\ typeName(call.type) = "String"
  /\ Len(fieldDef.directives) = 2
  /\ Tagged(fieldDef, "localized") /\ Tagged(fieldDef, "text")
  /\ "minLength" \in DOMAIN call.result
  /\ "properties" \in DOMAIN result
  /\ result.properties.values.items.properties.value.minLength = Defined(2)

\* C6: for a field whose type resolves to an object type, ampliencePropertyType
\* returns the content link to that one type when the field is tagged "link",
\* and an inline object descriptor otherwise.
C6_LinkOrInline ==
  (call.op = "ampliencePropertyType" /\ ResolvedKind(call.type) = "ObjectTypeDefinition") =>
    /\ outcome = "returned"
    /\ IF Tagged(fieldDef, "link")
       THEN result = ContentLinkOf(<<SchemaHost \o "/" \o KebabOf[typeName(call.type)]>>)
       ELSE /\ DOMAIN result = {"type", "properties", "propertyOrder", "required"}
            /\ result.type = "object"

\* C7: for a field whose type resolves to a union, ampliencePropertyType returns
\* the content link whose targets are the URIs of the members of the union, in
\* declaration order, whatever directives the field carries.
C7_UnionContentLink ==
  (call.op = "ampliencePropertyType" /\ ResolvedKind(call.type) = "UnionTypeDefinition") =>
    /\ outcome = "returned"
    /\ LET types == schema[typeName(call.type)].types
       IN  result = ContentLinkOf([i \in 1..Len(types) |->
                                     SchemaHost \o "/" \o KebabOf[types[i].name.value]])

\* ampliencePropertyType linked the three members of the union for a field
\* tagged "localized" and "const".
C7_Witness ==
  /\ call.op = "ampliencePropertyType" /\ outcome = "returned"
  /\ ResolvedKind(call.type) = "UnionTypeDefinition"
  /\ Tagged(fieldDef, "localized") /\ Tagged(fieldDef, "const")
  /\ result.allOf[2].properties.contentType.enum =
       <<"https://h/blog-post", "https://h/html-block", "https://h/article">>

\* C8: for a String field, ampliencePropertyType returns the fixed-value
\* descriptor only when a "const" directive of the field has an item argument;
\* otherwise it returns the free string descriptor, wrapped when the field is
\* tagged "localized".
C8_ConstNeedsItem ==
  (call.op = "ampliencePropertyType" /\ typeName(call.type) = "String") =>
    LET withItem == { i \in DOMAIN fieldDef.directives :
                        /\ fieldDef.directives[i].name.value = "const"
                        /\ \E k \in DOMAIN fieldDef.directives[i].arguments :
                             fieldDef.directives[i].arguments[k].name.value = "item" }
    IN  IF withItem # {}
        THEN DOMAIN result = {"type", "const"} /\ result.type = "string"
        ELSE IF Tagged(fieldDef, "localized")
        THEN "allOf" \in DOMAIN result
        ELSE /\ DOMAIN result = {"type", "format", "minLength", "maxLength", "examples"}
             /\ result.type = "string"

\* C9: every call returns; the one error a call throws is the configuration
\* error of filterableTrait.
C9_OnlyConfigurationError ==
  outcome = "threw" => (call.op = "filterableTrait" /\ result = ConfigurationError)

\* The object types a type embeds as inline objects: the types of its fields
\* that are kept, carry no "link" and resolve to an object type.
InlinedBy(name) ==
  { typeName(schema[name].fields[i].type) :
      i \in { j \in 1..Len(schema[name].fields) :
                LET f == schema[name].fields[j]
                IN  /\ \A t \in {"children", "ignoreAmplience", "link"} : ~Tagged(f, t)
                    /\ ResolvedKind(f.type) = "ObjectTypeDefinition" } }

RECURSIVE ReachedIn(_, _)
\* The types reached from those of S in at most n steps of InlinedBy.
ReachedIn(S, n) ==
  IF n = 0 THEN S ELSE ReachedIn(S \cup UNION { InlinedBy(t) : t \in S }, n - 1)

\* From the type one reaches a type that embeds itself, directly or not.
ReachesCycle(name) ==
  LET n == Cardinality(ObjectTypeNames(schema))
  IN  \E u \in ReachedIn({name}, n) : u \in ReachedIn(InlinedBy(u), n)

\* Lemma for C9 and for the bound MaxCallStack: objectProperties throws exactly
\* on the types that reach a cycle of inline objects; on every other type of
\* the schemas it returns.
OverflowOnlyOnCycle ==
  call.op = "objectProperties" => ((outcome = "threw") <=> ReachesCycle(call.type))

\* Lemma for C6: whenever the call of C6 returns, the result is the content
\* link to the one type for a field tagged "link" and an inline object
\* descriptor otherwise; with "link" the call always returns.
LinkOrInlineWhenReturned ==
  (call.op = "ampliencePropertyType" /\ ResolvedKind(call.type) = "ObjectTypeDefinition") =>
    /\ Tagged(fieldDef, "link") => outcome = "returned"
    /\ outcome = "returned" =>
         IF Tagged(fieldDef, "link")
         THEN result = ContentLinkOf(<<SchemaHost \o "/" \o KebabOf[typeName(call.type)]>>)
         ELSE /\ DOMAIN result = {"type", "properties", "propertyOrder", "required"}
              /\ result.type = "object"

RECURSIVE InlineConsistent(_, _)
\* d, the inline object descriptor made for type, lists in propertyOrder and in
\* required only keys of its properties, propertyOrder lists them all in
\* declaration order, and so does every inline object descriptor in it.
InlineConsistent(type, d) ==
  /\ \A k \in DOMAIN d.propertyOrder : d.propertyOrder[k] \in DOMAIN d.properties
  /\ \A k \in DOMAIN d.required : d.required[k] \in DOMAIN d.properties
  /\ d.propertyOrder =
       Map(Filter(type.fields, LAMBDA f : f.name.value \in DOMAIN d.properties),
           LAMBDA f : f.name.value)
  /\ \A i \in 1..Len(type.fields) :
       LET f == type.fields[i]
       IN  f.name.value \in DOMAIN d.properties =>
             LET e == ElementDescriptor(d.properties[f.name.value])
             IN  IsInlineDescriptor(e) => InlineConsistent(schema[typeName(f.type)], e)

\* C10: every inline object descriptor in the result of objectProperties is
\* consistent: propertyOrder and required name keys of properties only.
C10_InlineConsistent ==
  (call.op = "objectProperties" /\ outcome = "returned") =>
    \A i \in 1..Len(schema[call.type].fields) :
      LET f == schema[call.type].fields[i]
      IN  f.name.value \in DOMAIN result =>
            LET e == ElementDescriptor(result[f.name.value])
            IN  IsInlineDescriptor(e) => InlineConsistent(schema[typeName(f.type)], e)

====
